---------------------------- MODULE Spec2Model ----------------------------
(***************************************************************************)
(* Model of mediacopy.py: the image-representation descriptor encoder      *)
(* (ImageContentType, ImageRepresentation, ImageRepresentations), the link *)
(* resolver and uploader create_reps, and the polling loop main.           *)
(*                                                                         *)
(* Python object identity is modelled by handles into `heap` (a handle is  *)
(* a positive number, None is 0); bytes are sequences of numbers 0..255.   *)
(***************************************************************************)
EXTENDS Integers, Sequences, FiniteSets, TLC

(***************************************************************************)
(* Bounds of the model.                                                    *)
(***************************************************************************)
\* media items 1..NumMedia exist in the media table
NumMedia == 2
\* a row holds at most this many links with a role create_reps does not know
MaxUnknown == 2
\* records of the two-record database model
NumRecords == 2
\* objects on the heap when ImageRepresentations is built directly
HeapSize == 3

(***************************************************************************)
(* Program constants.                                                      *)
(***************************************************************************)
FILE_KEY_LENGTH == 16
YEAR_SECONDS == 365 * 24 * 3600
MaxDimension == 16383

None == 0

\* ---------------------------------------------------------------- helpers
Range(s) == {s[i] : i \in 1..Len(s)}

RECURSIVE Concat(_)
Concat(ss) == IF ss = <<>> THEN <<>> ELSE Head(ss) \o Concat(Tail(ss))

\* ------------------------------------------------------- ImageContentType
PNG == 1
JPEG == 2
GIF_STATIC == 3
WEBP_STATIC == 4

ImageContentType == {PNG, JPEG, GIF_STATIC, WEBP_STATIC}

IMAGE_MEDIA_TYPES == <<"image/png", "image/jpeg", "image/gif", "image/webp">>
IMAGE_EXTENSIONS == <<".png", ".jpg", ".gif", ".webp">>

ContentTypeSerialize(ct) == <<ct>>
media_type(ct) == IMAGE_MEDIA_TYPES[ct]
extension(ct) == IMAGE_EXTENSIONS[ct]

\* file_type -> ImageContentType; a file_type outside the domain is a KeyError
IMAGE_CONTENT_TYPES ==
    [ft \in {"gif", "jpg", "png", "webp"} |->
        CASE ft = "gif" -> GIF_STATIC
          [] ft = "jpg" -> JPEG
          [] ft = "png" -> PNG
          [] ft = "webp" -> WEBP_STATIC]

\* ---------------------------------------------------- ImageRepresentation
Err(type, what, value, cause) ==
    [type |-> type, what |-> what, value |-> value, cause |-> cause]

NoError == Err("none", "", <<>>, "")

\* (variant: the range checks off by one at 16384 and at 0)
RepInitError_OffByOne(width, height, file_key) ==
    IF ~(1 <= width /\ width <= MaxDimension + 1)
    THEN Err("ValueError", "Image width out of range", <<width>>, "")
    ELSE IF ~(0 <= height /\ height <= MaxDimension)
    THEN Err("ValueError", "Image height out of range", <<height>>, "")
    ELSE IF Len(file_key) # FILE_KEY_LENGTH
    THEN Err("ValueError", "Invalid file key", file_key, "")
    ELSE NoError

\* The exception ImageRepresentation.__init__ raises, or NoError.  The
\* checks run in the order width, height, file key; the first to fail wins.
RepInitError(width, height, file_key) ==
    IF ~(1 <= width /\ width <= MaxDimension)
    THEN Err("ValueError", "Image width out of range", <<width>>, "")
    ELSE IF ~(1 <= height /\ height <= MaxDimension)
    THEN Err("ValueError", "Image height out of range", <<height>>, "")
    ELSE IF Len(file_key) # FILE_KEY_LENGTH
    THEN Err("ValueError", "Invalid file key", file_key, "")
    ELSE NoError

\* the object __init__ leaves behind when it does not raise
NewRep(content_type, file_key, width, height) ==
    [content_type |-> content_type, file_key |-> file_key,
     width |-> width, height |-> height]

\* struct.pack(">H", n): two bytes, big-endian
PackH(n) == <<(n \div 256) % 256, n % 256>>

\* ImageRepresentation.serialize_to: 1 + 16 + 2 + 2 bytes
RepSerialize(rep) ==
    ContentTypeSerialize(rep.content_type) \o rep.file_key
        \o PackH(rep.width) \o PackH(rep.height)

\* --------------------------------------------------------- get_bucket_key
B64_URLSAFE ==
    << "A","B","C","D","E","F","G","H","I","J","K","L","M","N","O","P",
       "Q","R","S","T","U","V","W","X","Y","Z","a","b","c","d","e","f",
       "g","h","i","j","k","l","m","n","o","p","q","r","s","t","u","v",
       "w","x","y","z","0","1","2","3","4","5","6","7","8","9","-","_" >>

RECURSIVE B64Encode(_)
\* base64.urlsafe_b64encode, one character per element, "=" padding included
B64Encode(bytes) ==
    IF Len(bytes) = 0 THEN <<>>
    ELSE IF Len(bytes) = 1 THEN
        << B64_URLSAFE[(bytes[1] \div 4) + 1],
           B64_URLSAFE[((bytes[1] % 4) * 16) + 1], "=", "=" >>
    ELSE IF Len(bytes) = 2 THEN
        << B64_URLSAFE[(bytes[1] \div 4) + 1],
           B64_URLSAFE[((bytes[1] % 4) * 16 + bytes[2] \div 16) + 1],
           B64_URLSAFE[((bytes[2] % 16) * 4) + 1], "=" >>
    ELSE
        << B64_URLSAFE[(bytes[1] \div 4) + 1],
           B64_URLSAFE[((bytes[1] % 4) * 16 + bytes[2] \div 16) + 1],
           B64_URLSAFE[((bytes[2] % 16) * 4 + bytes[3] \div 64) + 1],
           B64_URLSAFE[(bytes[3] % 64) + 1] >>
        \o B64Encode(SubSeq(bytes, 4, Len(bytes)))

RECURSIVE RStrip(_, _)
RStrip(s, ch) ==
    IF s # <<>> /\ s[Len(s)] = ch THEN RStrip(SubSeq(s, 1, Len(s) - 1), ch) ELSE s

\* the object name in the bucket: characters of the key, then the extension
get_bucket_key(rep) ==
    Append(RStrip(B64Encode(rep.file_key), "="), extension(rep.content_type))

\* --------------------------------------------------- ImageRepresentations
\* ImageRepresentations.__init__ on five handles (None where not supplied)
RepsInit(original, cover, thumbnail_custom, thumbnail_generated, thumbnail_generated_webp) ==
    LET cover2 == IF cover = None THEN original ELSE cover
        generated2 == IF thumbnail_generated = None THEN cover2 ELSE thumbnail_generated
    IN [original |-> original,
        cover |-> cover2,
        thumbnail_custom |-> thumbnail_custom,
        thumbnail_generated |-> generated2,
        thumbnail_generated_webp |-> thumbnail_generated_webp]

NoReps == RepsInit(None, None, None, None, None)

Bit(b) == IF b THEN 1 ELSE 0

\* (variant: the cover bit compares field values instead of identities)
included_mask_ByValue(rs, hp) ==
    Bit(hp[rs.cover] # hp[rs.original])
    + Bit(rs.thumbnail_generated # rs.cover) * 2
    + Bit(rs.thumbnail_custom # None) * 4
    + Bit(rs.thumbnail_generated_webp # None) * 32

\* (variant: thumbnail_generated is compared with original, not with cover)
included_mask_AgainstOriginal(rs, hp) ==
    Bit(rs.cover # rs.original)
    + Bit(rs.thumbnail_generated # rs.original) * 2
    + Bit(rs.thumbnail_custom # None) * 4
    + Bit(rs.thumbnail_generated_webp # None) * 32

\* the mask byte of serialize_to; `is not` compares handles.  The shifted
\* terms occupy different bits, so | is their sum.
included_mask(rs, hp) ==
    Bit(rs.cover # rs.original)
    + Bit(rs.thumbnail_generated # rs.cover) * 2
    + Bit(rs.thumbnail_custom # None) * 4
    + Bit(rs.thumbnail_generated_webp # None) * 32

\* ImageRepresentations.serialize_to
RepsSerialize(rs, hp) ==
    <<included_mask(rs, hp)>>
    \o RepSerialize(hp[rs.original])
    \o (IF rs.cover # rs.original THEN RepSerialize(hp[rs.cover]) ELSE <<>>)
    \o (IF rs.thumbnail_generated # rs.cover
        THEN RepSerialize(hp[rs.thumbnail_generated]) ELSE <<>>)
    \o (IF rs.thumbnail_custom # None
        THEN RepSerialize(hp[rs.thumbnail_custom]) ELSE <<>>)
    \o (IF rs.thumbnail_generated_webp # None
        THEN RepSerialize(hp[rs.thumbnail_generated_webp]) ELSE <<>>)

\* ------------------------------------------------------------ media table
\* The media table of the database.  Item 1 is the item whose metadata
\* varies (`kind`); the others are well-formed images.  sha256 stands for
\* the 64 hex digits of the digest; eight are kept.
MediaKinds == {"png", "bmp", "width0", "height16384"}

Sha256Of(m) == << "0", "a", "1", "b", "2", "c", "3", B64_URLSAFE[27 + (m % 26)] >>

MediaItem(m, kind) ==
    IF m = 1 THEN
        [sha256 |-> Sha256Of(m),
         file_type |-> IF kind = "bmp" THEN "bmp" ELSE "png",
         attributes |-> [width |-> IF kind = "width0" THEN 0 ELSE 800,
                         height |-> IF kind = "height16384" THEN MaxDimension + 1 ELSE 600]]
    ELSE IF m % 3 = 2 THEN
        [sha256 |-> Sha256Of(m), file_type |-> "jpg",
         attributes |-> [width |-> 200, height |-> 150]]
    ELSE IF m % 3 = 0 THEN
        [sha256 |-> Sha256Of(m), file_type |-> "gif",
         attributes |-> [width |-> MaxDimension, height |-> 1]]
    ELSE
        [sha256 |-> Sha256Of(m), file_type |-> "webp",
         attributes |-> [width |-> 1, height |-> MaxDimension]]

MediaIds == 1..NumMedia

\* ------------------------------------------------------------------ links
KNOWN_ROLES ==
    << "submission", "cover", "thumbnail-custom", "thumbnail-generated",
       "thumbnail-generated-webp" >>
\* link types create_reps does not know
UNKNOWN_ROLES == << "thumbnail-source", "popup", "banner", "avatar" >>

\* what the database stores of a link: its role and the media item it tags
DbLink(role, m) == [link_type |-> role, mediaid |-> m]

\* the jsonb object the SELECT of main builds for a link (the join with media)
JoinLink(l, kind) ==
    LET md == MediaItem(l.mediaid, kind)
    IN [link_type |-> l.link_type, mediaid |-> l.mediaid, sha256 |-> md.sha256,
        file_type |-> md.file_type, attributes |-> md.attributes]

JoinLinks(ls, kind) == [i \in 1..Len(ls) |-> JoinLink(ls[i], kind)]

\* ---------------------------------------------------------------- dicts
\* A Python dict: its keys in insertion order, and the value of each key.
EmptyDict == [keys |-> <<>>, val |-> <<>>]
DictOf(ks, f) == [keys |-> ks, val |-> [k \in Range(ks) |-> f[k]]]
Has(d, k) == k \in Range(d.keys)

\* d[k] = v: a new key goes last, an old key keeps its place
DictSet(d, k, v) ==
    [keys |-> IF Has(d, k) THEN d.keys ELSE Append(d.keys, k),
     val |-> [x \in Range(d.keys) \cup {k} |-> IF x = k THEN v ELSE d.val[x]]]

\* the index of the first element of `xs` whose key an earlier element has; 0 if none
FirstDuplicate(xs) ==
    LET dups == {i \in 1..Len(xs) : \E j \in 1..(i - 1) : xs[j].link_type = xs[i].link_type}
    IN IF dups = {} THEN 0 ELSE CHOOSE i \in dups : \A j \in dups : i <= j

RECURSIVE DictFromLinks(_)
DictFromLinks(xs) ==
    IF xs = <<>> THEN EmptyDict
    ELSE LET n == Len(xs)
         IN DictSet(DictFromLinks(SubSeq(xs, 1, n - 1)), xs[n].link_type, xs[n])

\* (variant: a repeated key overwrites instead of raising)
lookup_by_error_Never(xs) == NoError

\* lookup_by(row.links, link_type): the ValueError it raises, or NoError
lookup_by_error(xs) ==
    IF FirstDuplicate(xs) = 0 THEN NoError
    ELSE [type |-> "ValueError", what |-> "Unexpected duplicate key",
          value |-> <<xs[FirstDuplicate(xs)].link_type>>]

\* lookup_by(row.links, link_type) when it does not raise
lookup_by(xs) == DictFromLinks(xs)

\* (variant: every key of d is kept)
subdict_KeepAll(d, keys) == d

\* subdict(d, keys): the keys of `keys` that d has, in the order of `keys`
subdict(d, keys) ==
    DictOf(SelectSeq(keys, LAMBDA k : Has(d, k)), d.val)

\* ------------------------------------------------------------ create_reps
\* subdict(link, ["sha256", "file_type", "attributes"])
MediaOf(link) ==
    [sha256 |-> link.sha256, file_type |-> link.file_type, attributes |-> link.attributes]

RECURSIVE MediaByMediaidOver(_, _)
MediaByMediaidOver(lk, n) ==
    IF n = 0 THEN EmptyDict
    ELSE LET link == lk.val[lk.keys[n]]
         IN DictSet(MediaByMediaidOver(lk, n - 1), link.mediaid, MediaOf(link))

\* {link["mediaid"]: subdict(link, ...) for link in links.values()}
MediaByMediaid(lk) == MediaByMediaidOver(lk, Len(lk.keys))

\* secrets.token_bytes(FILE_KEY_LENGTH): the k-th key the process draws.  The
\* generator is taken never to repeat a 128-bit value; key values are opaque,
\* so the k-th draw is the k-th value of a fixed enumeration.
TokenBytes(k) == [i \in 1..FILE_KEY_LENGTH |-> (k * 16 + i * 7) % 256]

\* the exception rep_from_media raises for `media`, or NoError
RepFromMediaError(media, file_key) ==
    IF media.file_type \notin DOMAIN IMAGE_CONTENT_TYPES
    THEN Err("KeyError", "", <<media.file_type>>, "")
    ELSE RepInitError(media.attributes.width, media.attributes.height, file_key)

\* rep_from_media(media) when it does not raise; the attributes hold
\* integers, of which int() is the value itself
RepFromMedia(media, file_key) ==
    NewRep(IMAGE_CONTENT_TYPES[media.file_type], file_key,
           media.attributes.width, media.attributes.height)

\* map_values(rep_from_media, media_by_mediaid), the process having drawn
\* `drawn` keys before: the i-th media item gets the next key and handle i.
FirstBadMedia(mm, drawn) ==
    LET bad == {i \in 1..Len(mm.keys) :
                  RepFromMediaError(mm.val[mm.keys[i]], TokenBytes(drawn + i)).type # "none"}
    IN IF bad = {} THEN 0 ELSE CHOOSE i \in bad : \A j \in bad : i <= j

RepByMediaid(mm) == DictOf(mm.keys, [m \in Range(mm.keys) |->
                        CHOOSE i \in 1..Len(mm.keys) : mm.keys[i] = m])

HeapOf(mm, drawn) ==
    [i \in 1..Len(mm.keys) |-> RepFromMedia(mm.val[mm.keys[i]], TokenBytes(drawn + i))]

\* (variant: a missing cover is tolerated like a missing optional role)
GetRepError_CoverOptional(lk) ==
    IF ~Has(lk, "submission")
    THEN Err("Exception", "Required key not found in", lk.keys, "submission")
    ELSE IF ~Has(lk, "thumbnail-generated")
    THEN Err("Exception", "Required key not found in", lk.keys, "thumbnail-generated")
    ELSE NoError

\* The exception the get_rep calls raise, or NoError.  The calls run in the
\* order submission, cover, thumbnail-custom, thumbnail-generated,
\* thumbnail-generated-webp; the message shows the links dict, the chained
\* KeyError (cause) holds the role.
GetRepError(lk) ==
    IF ~Has(lk, "submission")
    THEN Err("Exception", "Required key not found in", lk.keys, "submission")
    ELSE IF ~Has(lk, "cover")
    THEN Err("Exception", "Required key not found in", lk.keys, "cover")
    ELSE IF ~Has(lk, "thumbnail-generated")
    THEN Err("Exception", "Required key not found in", lk.keys, "thumbnail-generated")
    ELSE NoError

\* (variant: the role asked for is ignored, the submission's object returned)
GetRep_AlwaysSubmission(lk, rb, link_type) ==
    IF ~Has(lk, link_type) THEN None
    ELSE rb.val[lk.val["submission"].mediaid]

\* get_rep(link_type) when it does not raise: None for a missing role
GetRep(lk, rb, link_type) ==
    IF ~Has(lk, link_type) THEN None
    ELSE rb.val[lk.val[link_type].mediaid]

\* Lines 197-226 of create_reps on the joined links `xs`: the exception
\* raised, or the locals links, media_by_mediaid, rep_by_mediaid and reps,
\* with the objects created (heap) and the number of keys drawn.
Resolve(xs, drawn) ==
    LET failed(e, k) == [error |-> e, links |-> EmptyDict, media_by_mediaid |-> EmptyDict,
                         rep_by_mediaid |-> EmptyDict, heap |-> <<>>, reps |-> NoReps,
                         drawn |-> k]
    IN IF lookup_by_error(xs).type # "none"
       THEN failed(lookup_by_error(xs), drawn)
       ELSE
         LET lk == subdict(lookup_by(xs), KNOWN_ROLES)
             mm == MediaByMediaid(lk)
             bad == FirstBadMedia(mm, drawn)
             rb == RepByMediaid(mm)
         IN IF bad # 0
            THEN failed(RepFromMediaError(mm.val[mm.keys[bad]], TokenBytes(drawn + bad)),
                        IF mm.val[mm.keys[bad]].file_type \in DOMAIN IMAGE_CONTENT_TYPES
                        THEN drawn + bad ELSE drawn + bad - 1)
            ELSE IF GetRepError(lk).type # "none"
            THEN failed(GetRepError(lk), drawn + Len(mm.keys))
            ELSE [error |-> NoError, links |-> lk, media_by_mediaid |-> mm,
                  rep_by_mediaid |-> rb, heap |-> HeapOf(mm, drawn),
                  reps |-> RepsInit(GetRep(lk, rb, "submission"),
                                    GetRep(lk, rb, "cover"),
                                    GetRep(lk, rb, "thumbnail-custom"),
                                    GetRep(lk, rb, "thumbnail-generated"),
                                    GetRep(lk, rb, "thumbnail-generated-webp")),
                  drawn |-> drawn + Len(mm.keys)]

\* os.path.join(MEDIA_ROOT, sha[0:2], sha[2:4], sha[4:6], sha + "." + file_type)
FilePath(media) ==
    << "MEDIA_ROOT", SubSeq(media.sha256, 1, 2), SubSeq(media.sha256, 3, 4),
       SubSeq(media.sha256, 5, 6), media.sha256 \o <<".", media.file_type>> >>

\* What reading the file at `path` can give: the bytes the name promises, other
\* bytes, or no file.  A file's bytes are known by their digests and length.
SourceFiles(path) ==
    LET name == path[Len(path)]
        sha == SubSeq(name, 1, Len(name) - 2)
    IN { [exists |-> TRUE, sha256 |-> sha, md5 |-> <<"md5 of">> \o sha, length |-> 4096],
         [exists |-> TRUE, sha256 |-> <<"f", "f">> \o SubSeq(sha, 3, Len(sha)),
          md5 |-> <<"md5 of damaged">> \o sha, length |-> 4000],
         [exists |-> FALSE, sha256 |-> <<>>, md5 |-> <<>>, length |-> 0] }

NoFile == [exists |-> FALSE, sha256 |-> <<>>, md5 |-> <<>>, length |-> 0]

\* (variant: the object is named after the content hash, as the source file is)
PutObjectArgs_HashNamed(rep, file) ==
    [Body |-> file.sha256,
     CacheControl |-> <<"public, max-age=", YEAR_SECONDS, ", immutable">>,
     ContentMD5 |-> <<"b64">> \o file.md5,
     ContentLength |-> file.length,
     ContentType |-> media_type(rep.content_type),
     Key |-> Append(file.sha256, extension(rep.content_type))]

\* the keyword arguments of bucket.put_object for `rep` and the file read
PutObjectArgs(rep, file) ==
    [Body |-> file.sha256,
     CacheControl |-> <<"public, max-age=", YEAR_SECONDS, ", immutable">>,
     ContentMD5 |-> <<"b64">> \o file.md5,
     ContentLength |-> file.length,
     ContentType |-> media_type(rep.content_type),
     Key |-> get_bucket_key(rep)]

\* ----------------------------------------------------------- input rows
\* array_agg gives the links of a record in no stated order; the rows of the
\* model list them by link_type, a repeated role side by side.
ROW_ORDER ==
    << "cover", "submission", "thumbnail-custom", "thumbnail-generated",
       "thumbnail-generated-webp" >>

\* `a` gives each known role its media item (0: no link); `dup` names a role
\* that has a second link (to item 2), or is ""; `nu` links of unknown roles
\* tag item `mu`, all of one role (same) or each of its own.
RowOf(a, dup, nu, mu, same) ==
    Concat([i \in 1..Len(ROW_ORDER) |->
              (IF a[ROW_ORDER[i]] = 0 THEN <<>>
               ELSE <<DbLink(ROW_ORDER[i], a[ROW_ORDER[i]])>>)
              \o (IF dup = ROW_ORDER[i] THEN <<DbLink(ROW_ORDER[i], 2)>> ELSE <<>>)])
    \o [i \in 1..nu |->
          DbLink(UNKNOWN_ROLES[IF same THEN 1 ELSE ((i - 1) % Len(UNKNOWN_ROLES)) + 1], mu)]

Assignments == [Range(KNOWN_ROLES) -> 0..NumMedia]

Rows ==
    {RowOf(a, "", nu, mu, same) :
        a \in Assignments, nu \in 0..MaxUnknown, mu \in MediaIds, same \in BOOLEAN}
    \cup {RowOf(a, dup, 0, 1, TRUE) : a \in Assignments, dup \in Range(KNOWN_ROLES)}

\* the rows of the records of the database with several records: the required
\* roles on the items 1 and 2 (cover possibly missing), and possibly a custom
\* thumbnail
FewRows ==
    {RowOf(a, "", 0, 1, TRUE) : a \in
        {b \in Assignments :
            /\ b["submission"] \in {1, 2}
            /\ b["cover"] \in {0, 1, 2}
            /\ b["thumbnail-generated"] \in {1, 2}
            /\ b["thumbnail-custom"] \in {0, 2}
            /\ b["thumbnail-generated-webp"] = 0}}

\* ------------------------------------------------------------------ state
VARIABLES
    db,               \* submitid -> [links, image_representations] (<<>>: NULL)
    media_kind,       \* the metadata of media item 1 in the media table
    bucket,           \* the put_object calls the bucket accepted, in order
    pc,               \* where the process is
    row,              \* main: the row selected
    links,            \* create_reps: links
    media_by_mediaid, \* create_reps: media_by_mediaid
    rep_by_mediaid,   \* create_reps: rep_by_mediaid (media item -> handle)
    heap,             \* handle -> ImageRepresentation
    reps,             \* the ImageRepresentations (five handles)
    item,             \* create_reps: position of the upload loop
    file,             \* create_reps: what was read of the source file
    error,            \* the exception that ended the process, or NoError
    reps_bytes,       \* main: reps_bytes
    count,            \* main: count
    drawn,            \* keys the process has drawn from the generator
    args              \* arguments of ImageRepresentation(...) built directly

vars == << db, media_kind, bucket, pc, row, links, media_by_mediaid, rep_by_mediaid,
           heap, reps, item, file, error, reps_bytes, count, drawn, args >>

locals == << links, media_by_mediaid, rep_by_mediaid, heap, reps, item, file >>

NULL == <<>>
NoRow == [submitid |-> 0, links_is_null |-> TRUE, links |-> <<>>]
NoArgs == [content_type |-> PNG, file_key |-> <<>>, width |-> 0, height |-> 0]

InitLocals ==
    /\ bucket = <<>>
    /\ row = NoRow
    /\ links = EmptyDict
    /\ media_by_mediaid = EmptyDict
    /\ rep_by_mediaid = EmptyDict
    /\ reps = NoReps
    /\ item = 0
    /\ file = NoFile
    /\ error = NoError
    /\ reps_bytes = <<>>
    /\ count = 0
    /\ drawn = 0

\* one record, its links any row
Init ==
    /\ db \in [{1} -> [links : Rows, image_representations : {NULL}]]
    /\ media_kind \in MediaKinds
    /\ pc = "select"
    /\ heap = <<>>
    /\ args = NoArgs
    /\ InitLocals

\* NumRecords records, their links among FewRows
InitMany ==
    /\ db \in [1..NumRecords -> [links : FewRows, image_representations : {NULL}]]
    /\ media_kind = "png"
    /\ pc = "select"
    /\ heap = <<>>
    /\ args = NoArgs
    /\ InitLocals

\* ------------------------------------------------------------------- main
Unprocessed == {s \in DOMAIN db : db[s].image_representations = NULL}

\* main, lines 278-293: the newest record without a descriptor, or the end.
\* links is NULL for a record without links (the CASE of the SELECT), else
\* the array of the jsonb objects of its links.
Select ==
    /\ pc = "select"
    /\ IF Unprocessed = {}
       THEN /\ pc' = "exited"
            /\ row' = NoRow
       ELSE LET s == CHOOSE x \in Unprocessed : \A y \in Unprocessed : y <= x
            IN /\ row' = [submitid |-> s,
                          links_is_null |-> db[s].links = <<>>,
                          links |-> JoinLinks(db[s].links, media_kind)]
               /\ pc' = "create_reps"
    /\ UNCHANGED << db, media_kind, bucket, locals, error, reps_bytes, count, drawn, args >>

\* create_reps, lines 197-226; iterating row.links raises when it is None
ResolveLinks ==
    /\ pc = "create_reps"
    /\ LET r == IF row.links_is_null
                THEN [Resolve(<<>>, drawn) EXCEPT
                        !.error = Err("TypeError", "'NoneType' object is not iterable", <<>>, ""),
                        !.drawn = drawn]
                ELSE Resolve(row.links, drawn)
       IN /\ error' = r.error
          /\ links' = r.links
          /\ media_by_mediaid' = r.media_by_mediaid
          /\ rep_by_mediaid' = r.rep_by_mediaid
          /\ heap' = r.heap
          /\ reps' = r.reps
          /\ drawn' = r.drawn
          /\ item' = IF r.error.type = "none" THEN 1 ELSE 0
          /\ pc' = IF r.error.type # "none" THEN "crashed"
                   ELSE IF Len(r.rep_by_mediaid.keys) = 0 THEN "return"
                   ELSE "read_source"
    /\ file' = NoFile
    /\ UNCHANGED << db, media_kind, bucket, row, reps_bytes, count, args >>

CurrentMediaid == rep_by_mediaid.keys[item]
CurrentMedia == media_by_mediaid.val[CurrentMediaid]
CurrentRep == heap[rep_by_mediaid.val[CurrentMediaid]]

\* (variant: the digest is computed but not compared)
DigestMismatch_Unchecked(f, media) == FALSE

\* line 250
DigestMismatch(f, media) == f.sha256 # media.sha256

\* create_reps, lines 230-253: open the source file, read it through, compare
ReadSource ==
    /\ pc = "read_source"
    /\ \E f \in SourceFiles(FilePath(CurrentMedia)) :
          /\ file' = f
          /\ IF ~f.exists
             THEN /\ error' = Err("FileNotFoundError", "", FilePath(CurrentMedia), "")
                  /\ pc' = "crashed"
             ELSE IF DigestMismatch(f, CurrentMedia)
             THEN /\ error' = Err("Exception", "SHA-256 mismatch", f.sha256, "")
                  /\ pc' = "crashed"
             ELSE /\ error' = error
                  /\ pc' = "put_object"
    /\ UNCHANGED << db, media_kind, bucket, row, links, media_by_mediaid, rep_by_mediaid,
                    heap, reps, item, reps_bytes, count, drawn, args >>

\* (variant: a failed put_object is passed over and the loop goes on)
PutObject_PassOver ==
    /\ pc = "put_object"
    /\ \E accepted \in BOOLEAN :
          /\ bucket' = IF accepted THEN Append(bucket, PutObjectArgs(CurrentRep, file))
                       ELSE bucket
          /\ item' = item + 1
          /\ pc' = IF item = Len(rep_by_mediaid.keys) THEN "return" ELSE "read_source"
          /\ error' = error
    /\ UNCHANGED << db, media_kind, row, links, media_by_mediaid, rep_by_mediaid,
                    heap, reps, file, reps_bytes, count, drawn, args >>

\* create_reps, lines 255-262 and the loop's next turn: the bucket takes the
\* object, or the call raises
PutObject ==
    /\ pc = "put_object"
    /\ \E accepted \in BOOLEAN :
          IF accepted
          THEN /\ bucket' = Append(bucket, PutObjectArgs(CurrentRep, file))
               /\ item' = item + 1
               /\ pc' = IF item = Len(rep_by_mediaid.keys) THEN "return" ELSE "read_source"
               /\ error' = error
          ELSE /\ error' = Err("ClientError", "put_object", get_bucket_key(CurrentRep), "")
               /\ pc' = "crashed"
               /\ UNCHANGED << bucket, item >>
    /\ UNCHANGED << db, media_kind, row, links, media_by_mediaid, rep_by_mediaid,
                    heap, reps, file, reps_bytes, count, drawn, args >>

\* create_reps, line 264, and main, lines 295-299
ReturnAndSerialize ==
    /\ pc = "return"
    /\ count' = Len(rep_by_mediaid.keys)
    /\ reps_bytes' = RepsSerialize(reps, heap)
    /\ pc' = "persist"
    /\ UNCHANGED << db, media_kind, bucket, row, locals, error, drawn, args >>

\* main, lines 301-307: the UPDATE
Persist ==
    /\ pc = "persist"
    /\ db' = [db EXCEPT ![row.submitid].image_representations = reps_bytes]
    /\ pc' = "sleep"
    /\ UNCHANGED << media_kind, bucket, row, locals, error, reps_bytes, count, drawn, args >>

\* main, line 309, and the loop's next turn
Sleep ==
    /\ pc = "sleep"
    /\ pc' = "select"
    /\ UNCHANGED << db, media_kind, bucket, row, locals, error, reps_bytes, count, drawn, args >>

Next ==
    \/ Select
    \/ ResolveLinks
    \/ ReadSource
    \/ PutObject
    \/ ReturnAndSerialize
    \/ Persist
    \/ Sleep

Spec == Init /\ [][Next]_vars

SpecMany == InitMany /\ [][Next]_vars

\* ------------------------------------------- the encoder, used directly
Dimensions == {-1, 0, 1, 2, MaxDimension - 1, MaxDimension, MaxDimension + 1, 65535, 65536}
KeyLengths == {0, FILE_KEY_LENGTH - 1, FILE_KEY_LENGTH, FILE_KEY_LENGTH + 1, 2 * FILE_KEY_LENGTH}

\* the arguments of a call ImageRepresentation(content_type=..., file_key=...,
\* width=..., height=...)
InitRep ==
    /\ db = <<>>
    /\ media_kind = "png"
    /\ pc = "new_rep"
    /\ heap = <<>>
    /\ args \in [content_type : {PNG, WEBP_STATIC},
                 file_key : {[i \in 1..n |-> (i * 7) % 256] : n \in KeyLengths},
                 width : Dimensions,
                 height : Dimensions]
    /\ InitLocals

\* ImageRepresentation.__init__: the object exists only if no check raised
NewImageRepresentation ==
    /\ pc = "new_rep"
    /\ error' = RepInitError(args.width, args.height, args.file_key)
    /\ heap' = IF error'.type = "none"
               THEN <<NewRep(args.content_type, args.file_key, args.width, args.height)>>
               ELSE <<>>
    /\ pc' = IF error'.type = "none" THEN "serialize_rep" ELSE "crashed"
    /\ UNCHANGED << db, media_kind, bucket, row, links, media_by_mediaid, rep_by_mediaid,
                    reps, item, file, reps_bytes, count, drawn, args >>

\* ImageRepresentation.serialize_to on the object built
SerializeRep ==
    /\ pc = "serialize_rep"
    /\ reps_bytes' = RepSerialize(heap[1])
    /\ pc' = "done"
    /\ UNCHANGED << db, media_kind, bucket, row, locals, error, count, drawn, args >>

NextRep == NewImageRepresentation \/ SerializeRep

SpecRep == InitRep /\ [][NextRep]_vars

\* The objects an ImageRepresentations is built from: HeapSize objects, each
\* with one of two sets of field values, so that distinct objects can be equal
\* by value.
HeapValues ==
    { NewRep(PNG, TokenBytes(1), 800, 600), NewRep(JPEG, TokenBytes(2), 200, 150) }

InitReps ==
    /\ db = <<>>
    /\ media_kind = "png"
    /\ pc = "new_reps"
    /\ heap \in [1..HeapSize -> HeapValues]
    /\ args = NoArgs
    /\ InitLocals

\* ImageRepresentations(original=..., cover=..., ...): original is an object,
\* each other argument an object or None
NewImageRepresentations ==
    /\ pc = "new_reps"
    /\ \E original \in DOMAIN heap :
       \E cover, thumbnail_custom, thumbnail_generated, thumbnail_generated_webp
             \in DOMAIN heap \cup {None} :
          reps' = RepsInit(original, cover, thumbnail_custom, thumbnail_generated,
                           thumbnail_generated_webp)
    /\ pc' = "serialize_reps"
    /\ UNCHANGED << db, media_kind, bucket, row, links, media_by_mediaid, rep_by_mediaid,
                    heap, item, file, error, reps_bytes, count, drawn, args >>

\* ImageRepresentations.serialize_to into an empty buffer
SerializeReps ==
    /\ pc = "serialize_reps"
    /\ reps_bytes' = RepsSerialize(reps, heap)
    /\ pc' = "done"
    /\ UNCHANGED << db, media_kind, bucket, row, locals, error, count, drawn, args >>

NextReps == NewImageRepresentations \/ SerializeReps

SpecReps == InitReps /\ [][NextReps]_vars

(***************************************************************************)
(* Reading a descriptor back: the reader the format is written for.        *)
(***************************************************************************)
MaskBit(m, k) == (m \div (2 ^ k)) % 2

\* the i-th record after the mask byte, the records being n bytes long:
\* content type, 16 bytes of key, width and height big-endian
DecodeRecord(bytes, i, n) ==
    LET at == 1 + n * (i - 1)
    IN [content_type |-> bytes[at + 1],
        file_key |-> SubSeq(bytes, at + 2, at + 17),
        width |-> bytes[at + n - 3] * 256 + bytes[at + n - 2],
        height |-> bytes[at + n - 1] * 256 + bytes[at + n]]

\* the slots a descriptor with mask m holds a record for, in the order of the format
SlotsWritten(m, rs) ==
    <<rs.original>>
    \o (IF MaskBit(m, 0) = 1 THEN <<rs.cover>> ELSE <<>>)
    \o (IF MaskBit(m, 1) = 1 THEN <<rs.thumbnail_generated>> ELSE <<>>)
    \o (IF MaskBit(m, 2) = 1 THEN <<rs.thumbnail_custom>> ELSE <<>>)
    \o (IF MaskBit(m, 5) = 1 THEN <<rs.thumbnail_generated_webp>> ELSE <<>>)

\* the mask byte of `bytes` is the one the slots of rs ask for
MaskAsSlots(bytes, rs) ==
    LET m == bytes[1]
    IN /\ m \in 0..255
       /\ MaskBit(m, 0) = Bit(rs.cover # rs.original)
       /\ MaskBit(m, 1) = Bit(rs.thumbnail_generated # rs.cover)
       /\ MaskBit(m, 2) = Bit(rs.thumbnail_custom # None)
       /\ MaskBit(m, 5) = Bit(rs.thumbnail_generated_webp # None)
       /\ \A k \in {3, 4, 6, 7} : MaskBit(m, k) = 0

\* `bytes` is the mask byte and then one n-byte record for each slot written
RecordsAsSlots(bytes, rs, hp, n) ==
    LET written == SlotsWritten(bytes[1], rs)
    IN /\ Len(bytes) = 1 + n * Len(written)
       /\ \A i \in 1..Len(written) :
             /\ 1 + n * i <= Len(bytes)
             /\ DecodeRecord(bytes, i, n) = hp[written[i]]

(***************************************************************************)
(* C1 (SpecReps), as amended.  serialize_to writes the mask byte and then  *)
(* the records of original, cover, thumbnail_generated, thumbnail_custom   *)
(* and thumbnail_generated_webp in this order; original always, each other *)
(* one exactly when its mask bit is set.  bit0: cover is not the object    *)
(* original; bit1: thumbnail_generated is not the object cover; bit2:      *)
(* thumbnail_custom is there; bit5: thumbnail_generated_webp is there;     *)
(* bits 3, 4, 6, 7 are zero.  A record is 21 bytes (1 + 16 + 2 + 2), the   *)
(* length is 1 + 21 * (1 + bits set), from 22 to 106.  Objects are told    *)
(* apart by identity, not by value.                                        *)
(***************************************************************************)
C1_SerializeLayout ==
    pc = "done" =>
        /\ MaskAsSlots(reps_bytes, reps)
        /\ RecordsAsSlots(reps_bytes, reps, heap, 21)
        /\ Len(reps_bytes) \in 22..106

\* C1 as claimed: the same with records of 20 bytes and a length of 21 to 101
C1_AsClaimed ==
    pc = "done" =>
        /\ MaskAsSlots(reps_bytes, reps)
        /\ RecordsAsSlots(reps_bytes, reps, heap, 20)
        /\ Len(reps_bytes) \in 21..101

\* cover is another object than original with the same field values, every
\* bit of the mask is set, and the five records are written
C1_Witness ==
    /\ pc = "done"
    /\ reps.cover # reps.original
    /\ heap[reps.cover] = heap[reps.original]
    /\ reps_bytes[1] = 39
    /\ Len(reps_bytes) = 106
    /\ DecodeRecord(reps_bytes, 1, 21) = DecodeRecord(reps_bytes, 2, 21)

(***************************************************************************)
(* C9 (SpecRep).  ImageRepresentation(...) gives an object exactly when    *)
(* 1 <= width <= 16383, 1 <= height <= 16383 and the key has 16 bytes.     *)
(* Otherwise it raises a ValueError that names a field out of range with   *)
(* its value, and no object exists.                                        *)
(***************************************************************************)
C9_ConstructorValidates ==
    pc # "new_rep" =>
        LET width_ok == 1 <= args.width /\ args.width <= 16383
            height_ok == 1 <= args.height /\ args.height <= 16383
            key_ok == Len(args.file_key) = 16
        IN IF width_ok /\ height_ok /\ key_ok
           THEN /\ error.type = "none"
                /\ heap = << [content_type |-> args.content_type, file_key |-> args.file_key,
                              width |-> args.width, height |-> args.height] >>
           ELSE /\ error.type = "ValueError"
                /\ heap = <<>>
                /\ \/ error.what = "Image width out of range"
                         /\ error.value = <<args.width>> /\ ~width_ok
                   \/ error.what = "Image height out of range"
                         /\ error.value = <<args.height>> /\ ~height_ok
                   \/ error.what = "Invalid file key"
                         /\ error.value = args.file_key /\ ~key_ok

\* a width of 16384 with a good height and key is refused
C9_Witness ==
    /\ pc = "crashed"
    /\ args.width = 16384
    /\ args.height = 16383
    /\ Len(args.file_key) = 16
    /\ error.what = "Image width out of range"
    /\ heap = <<>>

(***************************************************************************)
(* The input of a record, read from the database and the media table.      *)
(***************************************************************************)
KnownRoleNames ==
    {"submission", "cover", "thumbnail-custom", "thumbnail-generated",
     "thumbnail-generated-webp"}
RequiredRoleNames == {"submission", "cover", "thumbnail-generated"}

KnownLinks(ls) == SelectSeq(ls, LAMBDA l : l.link_type \in KnownRoleNames)
RoleUnique(ls) == \A i, j \in 1..Len(ls) : i # j => ls[i].link_type # ls[j].link_type
HasRole(ls, r) == \E i \in 1..Len(ls) : ls[i].link_type = r
\* the media item of the link of role r (0 without such a link)
MediaidOf(ls, r) ==
    IF HasRole(ls, r) THEN ls[CHOOSE i \in 1..Len(ls) : ls[i].link_type = r].mediaid ELSE 0
DistinctMedia(ls) == {l.mediaid : l \in Range(KnownLinks(ls))}

\* the slot of the ImageRepresentations a role fills
SlotOf(rs, r) ==
    CASE r = "submission" -> rs.original
      [] r = "cover" -> rs.cover
      [] r = "thumbnail-custom" -> rs.thumbnail_custom
      [] r = "thumbnail-generated" -> rs.thumbnail_generated
      [] r = "thumbnail-generated-webp" -> rs.thumbnail_generated_webp

BadFileType(m) == MediaItem(m, media_kind).file_type \notin {"gif", "jpg", "png", "webp"}
BadDimensions(m) ==
    \/ MediaItem(m, media_kind).attributes.width \notin 1..16383
    \/ MediaItem(m, media_kind).attributes.height \notin 1..16383

\* create_reps has been through its resolution for the record of Spec
Started == pc \notin {"select", "create_reps"} /\ row.submitid = 1
\* ... and it raised there / went on to the uploads
ResolutionFailed == Started /\ pc = "crashed" /\ item = 0
ResolutionDone == Started /\ item >= 1

(***************************************************************************)
(* C2 (Spec).  create_reps builds one representation object for each       *)
(* distinct media item among the links of the five known roles: two roles  *)
(* get the same object exactly when they tag the same media item, every    *)
(* object built is the object of some role, and the count returned is the  *)
(* number of distinct media items.                                         *)
(***************************************************************************)
C2_OneRepPerMedia ==
    ResolutionDone =>
        LET k == KnownLinks(db[1].links)
        IN /\ \A i \in 1..Len(k) : SlotOf(reps, k[i].link_type) \in DOMAIN heap
           /\ \A i, j \in 1..Len(k) :
                 (SlotOf(reps, k[i].link_type) = SlotOf(reps, k[j].link_type))
                    <=> (k[i].mediaid = k[j].mediaid)
           /\ \A i, j \in 1..Len(k) :
                 (k[i].mediaid = k[j].mediaid) =>
                    heap[SlotOf(reps, k[i].link_type)].file_key
                       = heap[SlotOf(reps, k[j].link_type)].file_key
           /\ \A h \in DOMAIN heap : \E i \in 1..Len(k) : SlotOf(reps, k[i].link_type) = h
           /\ Len(heap) = Cardinality(DistinctMedia(db[1].links))
           /\ pc \in {"persist", "sleep"} => count = Cardinality(DistinctMedia(db[1].links))

\* five roles on two media items: submission and cover share one object, the
\* count returned is 2
C2_Witness ==
    /\ pc = "persist"
    /\ Len(KnownLinks(db[1].links)) = 5
    /\ MediaidOf(db[1].links, "submission") = MediaidOf(db[1].links, "cover")
    /\ MediaidOf(db[1].links, "thumbnail-generated") # MediaidOf(db[1].links, "cover")
    /\ reps.original = reps.cover
    /\ reps.thumbnail_generated # reps.cover
    /\ count = 2

(***************************************************************************)
(* C3 (Spec).  put_object is reached for a media item only when the SHA-256 *)
(* of the bytes read equals the digest of the media record; every object   *)
(* the bucket holds has the bytes of its media record; on a mismatch the   *)
(* process stops with the error and the bucket holds no object for the     *)
(* item.                                                                   *)
(***************************************************************************)
C3_DigestBeforePut ==
    /\ pc = "put_object" =>
          file.sha256 = MediaItem(rep_by_mediaid.keys[item], media_kind).sha256
    /\ ResolutionDone =>
          \A i \in 1..Len(bucket) :
             /\ i <= Len(rep_by_mediaid.keys)
             /\ bucket[i].Body = MediaItem(rep_by_mediaid.keys[i], media_kind).sha256
             /\ bucket[i].Key = get_bucket_key(heap[rep_by_mediaid.val[rep_by_mediaid.keys[i]]])
    /\ (pc = "crashed" /\ error.what = "SHA-256 mismatch") =>
          /\ file.sha256 # MediaItem(rep_by_mediaid.keys[item], media_kind).sha256
          /\ Len(bucket) = item - 1
          /\ \A i \in 1..Len(bucket) :
                bucket[i].Key # get_bucket_key(heap[rep_by_mediaid.val[rep_by_mediaid.keys[item]]])

\* the second item of a record fails the comparison after the first was stored
C3_Witness ==
    /\ pc = "crashed"
    /\ error.what = "SHA-256 mismatch"
    /\ item = 2
    /\ Len(bucket) = 1
    /\ file.exists

(***************************************************************************)
(* C10 (Spec).  A role repeated among the links, a required role missing,  *)
(* a file_type outside gif, jpg, png, webp or a width or height outside    *)
(* 1..16383 on a link of a known role: create_reps raises before the       *)
(* uploads, the bucket holds no object and the record has no descriptor.   *)
(***************************************************************************)
C10_ResolutionFailuresWriteNothing ==
    LET ls == db[1].links
        bad == \/ ~RoleUnique(ls)
               \/ \E r \in RequiredRoleNames : ~HasRole(ls, r)
               \/ \E m \in DistinctMedia(ls) : BadFileType(m) \/ BadDimensions(m)
    IN /\ (Started /\ bad) => ResolutionFailed /\ error.type # "none"
       /\ ResolutionFailed =>
             /\ bucket = <<>>
             /\ db[1].image_representations = <<>>
             /\ reps_bytes = <<>>

\* a record with every required role, no role twice, whose only fault is a
\* height of 16384
C10_Witness ==
    /\ ResolutionFailed
    /\ RoleUnique(db[1].links)
    /\ \A r \in RequiredRoleNames : HasRole(db[1].links, r)
    /\ error.what = "Image height out of range"
    /\ error.value = <<16384>>
    /\ bucket = <<>>

(***************************************************************************)
(* C4 (Spec), as amended.  For a list of links without a repeated role:    *)
(* when a required role is missing and every media item of a known role    *)
(* has a supported file_type and dimensions in range, create_reps raises   *)
(* the "Required key not found" error, whose chained KeyError holds the    *)
(* first missing role in the order submission, cover, thumbnail-generated  *)
(* (its message shows the links found); when such a media item is not      *)
(* well-formed, the KeyError or ValueError of that item is raised instead. *)
(* When no required role is missing and the items are well-formed there is *)
(* no error, a missing optional role leaves its slot None and its mask bit *)
(* (bit 2, bit 5) is 0.                                                    *)
(***************************************************************************)
MissingRequired(ls) == {r \in RequiredRoleNames : ~HasRole(ls, r)}
FirstMissing(ls) ==
    IF ~HasRole(ls, "submission") THEN "submission"
    ELSE IF ~HasRole(ls, "cover") THEN "cover"
    ELSE "thumbnail-generated"
WellFormedMedia(ls) == \A m \in DistinctMedia(ls) : ~BadFileType(m) /\ ~BadDimensions(m)

\* a missing optional role: slot None, mask bit 0 once the descriptor is made
OptionalAbsent(ls) ==
    /\ ~HasRole(ls, "thumbnail-custom") =>
          /\ reps.thumbnail_custom = None
          /\ pc \in {"persist", "sleep"} => MaskBit(reps_bytes[1], 2) = 0
    /\ ~HasRole(ls, "thumbnail-generated-webp") =>
          /\ reps.thumbnail_generated_webp = None
          /\ pc \in {"persist", "sleep"} => MaskBit(reps_bytes[1], 5) = 0

C4_MissingRoles ==
    LET ls == db[1].links
    IN (Started /\ ls # <<>> /\ RoleUnique(ls)) =>
          /\ (MissingRequired(ls) # {} /\ WellFormedMedia(ls)) =>
                /\ ResolutionFailed
                /\ error.type = "Exception"
                /\ error.what = "Required key not found in"
                /\ error.cause = FirstMissing(ls)
                /\ Range(error.value) = {l.link_type : l \in Range(KnownLinks(ls))}
          /\ (MissingRequired(ls) # {} /\ ~WellFormedMedia(ls)) =>
                /\ ResolutionFailed
                /\ error.type \in {"KeyError", "ValueError"}
          /\ (MissingRequired(ls) = {} /\ WellFormedMedia(ls)) =>
                /\ ResolutionDone
                /\ OptionalAbsent(ls)

\* C4 as claimed: a missing required role always gives the missing-link
\* error, which names a missing role
C4_AsClaimed ==
    LET ls == db[1].links
    IN (Started /\ ls # <<>> /\ RoleUnique(ls)) =>
          /\ MissingRequired(ls) # {} =>
                /\ ResolutionFailed
                /\ error.type = "Exception"
                /\ error.what = "Required key not found in"
                /\ error.cause \in MissingRequired(ls)
          /\ (MissingRequired(ls) = {} /\ WellFormedMedia(ls)) =>
                /\ ResolutionDone
                /\ OptionalAbsent(ls)

\* only cover is missing, the media items are well-formed: the error holds "cover"
C4_Witness ==
    /\ ResolutionFailed
    /\ RoleUnique(db[1].links)
    /\ MissingRequired(db[1].links) = {"cover"}
    /\ HasRole(db[1].links, "thumbnail-custom")
    /\ WellFormedMedia(db[1].links)
    /\ error.cause = "cover"

(***************************************************************************)
(* C5 (Spec), as amended.  Links of a role outside the five known ones are *)
(* ignored, provided no such role is repeated in the list: with them the   *)
(* process fails or succeeds as on the list without them, with the same    *)
(* slots, the same count and the same objects uploaded, and no             *)
(* representation is built for a media item only they tag.  A list that    *)
(* repeats such a role fails with the duplicate-key error.                 *)
(***************************************************************************)
UnknownLinks(ls) == SelectSeq(ls, LAMBDA l : l.link_type \notin KnownRoleNames)

SameAsWithoutUnknown(ls) ==
    \E r \in {Resolve(JoinLinks(KnownLinks(ls), media_kind), 0)} :
       /\ ResolutionFailed <=> r.error.type # "none"
       /\ ResolutionDone =>
             /\ reps = r.reps
             /\ heap = r.heap
             /\ Range(rep_by_mediaid.keys) = DistinctMedia(ls)
       /\ (ResolutionDone /\ pc \in {"persist", "sleep"}) =>
             /\ count = Len(r.heap)
             /\ Len(bucket) = Len(r.heap)
             /\ {bucket[i].Key : i \in 1..Len(bucket)}
                   = {get_bucket_key(r.heap[h]) : h \in DOMAIN r.heap}

C5_UnknownRolesIgnored ==
    /\ (Started /\ db[1].links # <<>> /\ RoleUnique(UnknownLinks(db[1].links)))
          => SameAsWithoutUnknown(db[1].links)
    /\ (Started /\ ~RoleUnique(UnknownLinks(db[1].links)))
          => ResolutionFailed /\ error.what = "Unexpected duplicate key"

\* C5 as claimed: for any list of links
C5_AsClaimed ==
    (Started /\ db[1].links # <<>>) => SameAsWithoutUnknown(db[1].links)

\* two links of two unknown roles tag item 1, which is no image create_reps
\* supports and which no known role tags; the record is processed
C5_Witness ==
    /\ pc = "persist"
    /\ media_kind = "bmp"
    /\ Len(UnknownLinks(db[1].links)) = 2
    /\ \A i \in 1..Len(db[1].links) :
          db[1].links[i].mediaid = 1 <=> db[1].links[i].link_type \notin KnownRoleNames
    /\ count = 1
    /\ Len(bucket) = 1

(***************************************************************************)
(* C6 (Spec), as amended.  In the descriptor of a record, mask bit0 is 1   *)
(* exactly when the cover link tags another media item than the submission *)
(* link, bit1 exactly when the thumbnail-generated link tags another media *)
(* item than the cover link, and the objects uploaded are as many as the   *)
(* distinct media items.  The record submission->M1, cover->M1,            *)
(* thumbnail-generated->M2 (M1 an 800x600 PNG, M2 a 200x150 JPEG) uploads  *)
(* 2 objects, its mask byte is 2 and its descriptor has 43 bytes.          *)
(***************************************************************************)
Scenario(ls) ==
    /\ media_kind = "png"
    /\ Len(KnownLinks(ls)) = 3
    /\ MediaidOf(ls, "submission") = 1
    /\ MediaidOf(ls, "cover") = 1
    /\ MediaidOf(ls, "thumbnail-generated") = 2

EndToEnd(ls, length) ==
    /\ MaskBit(reps_bytes[1], 0) = Bit(MediaidOf(ls, "cover") # MediaidOf(ls, "submission"))
    /\ MaskBit(reps_bytes[1], 1)
          = Bit(MediaidOf(ls, "thumbnail-generated") # MediaidOf(ls, "cover"))
    /\ Len(bucket) = Cardinality(DistinctMedia(ls))
    /\ Scenario(ls) =>
          /\ Len(bucket) = 2
          /\ reps_bytes[1] = 2
          /\ Len(reps_bytes) = length

C6_EndToEnd ==
    (Started /\ pc \in {"persist", "sleep"}) => EndToEnd(db[1].links, 43)

\* C6 as claimed: the descriptor of the record has 41 bytes
C6_AsClaimed ==
    (Started /\ pc \in {"persist", "sleep"}) => EndToEnd(db[1].links, 41)

\* the record of the scenario, persisted: an 800x600 PNG and a 200x150 JPEG
C6_Witness ==
    /\ pc = "sleep"
    /\ Scenario(db[1].links)
    /\ db[1].image_representations[1] = 2
    /\ DecodeRecord(db[1].image_representations, 1, 21).content_type = 1
    /\ DecodeRecord(db[1].image_representations, 1, 21).width = 800
    /\ DecodeRecord(db[1].image_representations, 1, 21).height = 600
    /\ DecodeRecord(db[1].image_representations, 2, 21).content_type = 2
    /\ DecodeRecord(db[1].image_representations, 2, 21).width = 200
    /\ DecodeRecord(db[1].image_representations, 2, 21).height = 150

(***************************************************************************)
(* Records with a descriptor, and the objects their descriptors name.      *)
(***************************************************************************)
Persisted == {s \in DOMAIN db : db[s].image_representations # <<>>}

RecordsOf(bytes) == {DecodeRecord(bytes, i, 21) : i \in 1..((Len(bytes) - 1) \div 21)}
NamesIn(bytes) == {get_bucket_key(r) : r \in RecordsOf(bytes)}
NamesOf(s) == NamesIn(db[s].image_representations)
Entries(names) == {i \in 1..Len(bucket) : bucket[i].Key \in names}
HeapNames == {get_bucket_key(heap[h]) : h \in DOMAIN heap}

(***************************************************************************)
(* C7 (SpecMany).  When a record has a descriptor, the bucket holds one    *)
(* object for each of its distinct media items, none missing and none      *)
(* twice, each named after the key of the item's representation, with the  *)
(* item's bytes; the objects are in the bucket before the UPDATE; every    *)
(* key in the descriptor is the name of an object, and every object in the *)
(* bucket is named in the descriptor of its record unless that record has  *)
(* none yet.                                                               *)
(***************************************************************************)
C7_UploadedBeforePersist ==
    /\ \A s \in Persisted :
          LET d == DistinctMedia(db[s].links)
              mine == Entries(NamesOf(s))
          IN /\ Cardinality(NamesOf(s)) = Cardinality(d)
             /\ Cardinality(mine) = Cardinality(d)
             /\ \A nm \in NamesOf(s) : Cardinality(Entries({nm})) = 1
             /\ \A m \in d :
                   Cardinality({i \in mine : bucket[i].Body = MediaItem(m, media_kind).sha256}) = 1
    /\ pc = "persist" =>
          /\ row.submitid \notin Persisted
          /\ \A nm \in NamesIn(reps_bytes) : Entries({nm}) # {}
          /\ NamesIn(reps_bytes) = HeapNames
    /\ \A i \in 1..Len(bucket) :
          \/ \E s \in Persisted : bucket[i].Key \in NamesOf(s)
          \/ row.submitid \notin Persisted /\ bucket[i].Key \in HeapNames

\* both records have their descriptor, each with two media items: four objects
C7_Witness ==
    /\ Persisted = {1, 2}
    /\ Len(bucket) = 4
    /\ Cardinality(NamesOf(1) \cup NamesOf(2)) = 4
    /\ pc = "sleep"

(***************************************************************************)
(* C8 (SpecMany).  When the comparison of the digest or put_object fails   *)
(* for the k-th media item of a record, the objects of its k - 1 earlier   *)
(* items stay in the bucket, no object of the k-th or a later item is      *)
(* there, the record has no descriptor, no older record has been looked    *)
(* at, and the process does nothing more.                                  *)
(***************************************************************************)
UploadFailed == pc = "crashed" /\ item >= 1 /\ error.what \in {"SHA-256 mismatch", "put_object"}

NameOfItem(j) == get_bucket_key(heap[rep_by_mediaid.val[rep_by_mediaid.keys[j]]])

FailureLeavesEarlierObjects ==
    UploadFailed =>
        LET before == Cardinality(Entries(UNION {NamesOf(s) : s \in Persisted}))
        IN /\ Len(bucket) = before + item - 1
           /\ \A j \in 1..(item - 1) : bucket[before + j].Key = NameOfItem(j)
           /\ \A j \in item..Len(rep_by_mediaid.keys) : Entries({NameOfItem(j)}) = {}
           /\ db[row.submitid].image_representations = <<>>
           /\ Persisted = {s \in DOMAIN db : s > row.submitid}

C8_FailureStopsEverything ==
    /\ []FailureLeavesEarlierObjects
    /\ [][pc # "crashed"]_vars

\* put_object fails for the second item of the second record processed
C8_Witness ==
    /\ UploadFailed
    /\ error.what = "put_object"
    /\ item = 2
    /\ row.submitid = 1
    /\ Persisted = {2}
    /\ Len(bucket) >= 2

=============================================================================
